---- MODULE Spec2Model ----
(***************************************************************************)
(* Model of source/brailleTables.py: the registry of braille translation   *)
(* tables, the builtin tables, and the discovery and loading of custom     *)
(* table manifests.                                                        *)
(***************************************************************************)
EXTENDS Integers, Sequences, FiniteSets, TLC

VARIABLES
    _tables,        \* the registry: file name -> BrailleTable
    tablesDirs,     \* the directories searched for tables
    secure,         \* globalVars.appArgs.secure
    enableScratchpadDir, \* config.conf['development']['enableScratchpadDir']
    scratchpad,     \* the scratchpad "brailleTables" directory on disk
    runningAddons,  \* the "brailleTables" directories of the running add-ons
    lang,           \* languageHandler.getLanguage(), as its "_"-separated parts
    call,           \* the last call made to the module
    ret,            \* how that call ended
    log,            \* what that call logged
    prevTables,     \* the registry before that call
    prevDirs,       \* the directory list before that call
    history         \* the names of the calls made so far

envVars == <<secure, enableScratchpadDir, scratchpad, runningAddons, lang>>
vars == <<_tables, tablesDirs, secure, enableScratchpadDir, scratchpad,
          runningAddons, lang, call, ret, log, prevTables, prevDirs, history>>

-----------------------------------------------------------------------------
(* Bounds of the model *)

\* The number of calls made to the module in one behaviour.
MaxCalls == 3
\* The number of files found in the custom directories of one load.
MaxFiles == 2

-----------------------------------------------------------------------------
(* Python values.  A value carries its type: ConfigObj hands out the raw   *)
(* strings of the file, the code's defaults are bools, dict.get gives None *)

PyStr(s) == [type |-> "str", v |-> s, items |-> << >>]
PyBool(b) == [type |-> "bool", v |-> IF b THEN "True" ELSE "False", items |-> << >>]
PyNone == [type |-> "NoneType", v |-> "None", items |-> << >>]
\* a dict of strings, such as the dict() of a [[displayName]] sub-section
PyDict(m) == [type |-> "dict", v |-> "", items |-> m]
\* a non-empty list of strings, such as ConfigObj makes of "a, b"
PyList(s) == [type |-> "list", v |-> s, items |-> << >>]

\* Python's truth value of a value ("not x" is ~Truthy(x)).
Truthy(val) ==
    CASE val.type = "bool" -> val.v = "True"
      [] val.type = "str" -> val.v # ""
      [] val.type = "NoneType" -> FALSE
      [] val.type = "dict" -> DOMAIN val.items # {}
      [] val.type = "list" -> TRUE

\* dict.get(key, default) on a dict modelled as a function
Get(d, key, default) == IF key \in DOMAIN d THEN d[key] ELSE default

\* The empty dict.
EmptyDict == << >>

-----------------------------------------------------------------------------
(* Constants of the module *)

TABLES_DIR == "louis\\tables"
FALLBACK_TABLE_NAME == "en-ueb-g1.ctb"

\* The translations of the active gettext catalog.
Catalog ==
    [msgid \in {"Unicode braille", "Custom A"} |->
        IF msgid = "Unicode braille" THEN "Unicode-Braille" ELSE "Eigene A"]

\* _(message): the translation when the catalog has one, else the message.
Translate(message) ==
    IF message \in DOMAIN Catalog THEN Catalog[message] ELSE message

-----------------------------------------------------------------------------
(* The registry *)

BrailleTable(fileName, displayName, contracted, output, input) ==
    [fileName |-> fileName, displayName |-> displayName,
     contracted |-> contracted, output |-> output, input |-> input]

\* _tables[fileName] = table
SetItem(tables, fileName, table) ==
    [f \in DOMAIN tables \cup {fileName} |->
        IF f = fileName THEN table ELSE tables[f]]

\* addTable changed to keep the contracted flag of an entry it replaces.
addTableKeepingContracted(tables, fileName, displayName, contracted, output, input) ==
    IF ~Truthy(output) /\ ~Truthy(input)
    THEN [raised |-> "ValueError", tables |-> tables]
    ELSE [raised |-> "",
          tables |-> SetItem(tables, fileName,
                        BrailleTable(fileName, displayName,
                            IF fileName \in DOMAIN tables
                            THEN tables[fileName].contracted ELSE contracted,
                            output, input))]

addTable(tables, fileName, displayName, contracted, output, input) ==
    IF ~Truthy(output) /\ ~Truthy(input)
    THEN [raised |-> "ValueError", tables |-> tables]
    ELSE [raised |-> "",
          tables |-> SetItem(tables, fileName,
                        BrailleTable(fileName, displayName, contracted, output, input))]

getTable(tables, fileName) ==
    IF fileName \in DOMAIN tables
    THEN [raised |-> "", value |-> tables[fileName]]
    ELSE [raised |-> "KeyError", value |-> PyNone]

getFallbackTable(tables) == getTable(tables, FALLBACK_TABLE_NAME)

\* The builtin tables initialize() adds, in order:
\* <<fileName, message, contracted, output, input>>.
BuiltinTables == <<
    <<"afr-za-g1.ctb", "Afrikaans grade 1", FALSE, TRUE, TRUE>>,
    <<"ar-ar-comp8.utb", "Arabic 8 dot computer braille", FALSE, TRUE, TRUE>>,
    <<"ar-ar-g1.utb", "Arabic grade 1", FALSE, TRUE, TRUE>>,
    <<"ar-ar-g2.ctb", "Arabic grade 2", FALSE, TRUE, TRUE>>,
    <<"as-in-g1.utb", "Assamese grade 1", FALSE, TRUE, TRUE>>,
    <<"be-in-g1.utb", "Bengali grade 1", FALSE, TRUE, TRUE>>,
    <<"bg.ctb", "Bulgarian 8 dot computer braille", FALSE, TRUE, TRUE>>,
    <<"ckb-g1.ctb", "Central Kurdish grade 1", FALSE, TRUE, TRUE>>,
    <<"cy-cy-g1.utb", "Welsh grade 1", FALSE, TRUE, TRUE>>,
    <<"cy-cy-g2.ctb", "Welsh grade 2", TRUE, TRUE, TRUE>>,
    <<"cs-comp8.utb", "Czech 8 dot computer braille", FALSE, TRUE, TRUE>>,
    <<"cs-g1.ctb", "Czech grade 1", FALSE, TRUE, TRUE>>,
    <<"da-dk-g08.ctb", "Danish 8 dot computer braille", FALSE, TRUE, TRUE>>,
    <<"da-dk-g16.ctb", "Danish 6 dot grade 1", FALSE, TRUE, TRUE>>,
    <<"da-dk-g18.ctb", "Danish 8 dot grade 1", FALSE, TRUE, TRUE>>,
    <<"da-dk-g26.ctb", "Danish 6 dot grade 2", TRUE, TRUE, TRUE>>,
    <<"da-dk-g28.ctb", "Danish 8 dot grade 2", TRUE, TRUE, TRUE>>,
    <<"de-de-comp8.ctb", "German 8 dot computer braille", FALSE, TRUE, TRUE>>,
    <<"de-g0.utb", "German grade 0", FALSE, TRUE, TRUE>>,
    <<"de-g1.ctb", "German grade 1", FALSE, TRUE, TRUE>>,
    <<"de-g2.ctb", "German grade 2", TRUE, TRUE, TRUE>>,
    <<"el.ctb", "Greek (Greece)", FALSE, TRUE, TRUE>>,
    <<"en-gb-comp8.ctb", "English (U.K.) 8 dot computer braille", FALSE, TRUE, TRUE>>,
    <<"en-gb-g1.utb", "English (U.K.) grade 1", FALSE, TRUE, TRUE>>,
    <<"en-GB-g2.ctb", "English (U.K.) grade 2", TRUE, TRUE, TRUE>>,
    <<"en-nabcc.utb", "English North American Braille Computer Code", FALSE, TRUE, TRUE>>,
    <<"en-ueb-g1.ctb", "Unified English Braille Code grade 1", FALSE, TRUE, TRUE>>,
    <<"en-ueb-g2.ctb", "Unified English Braille Code grade 2", TRUE, TRUE, TRUE>>,
    <<"en-us-comp6.ctb", "English (U.S.) 6 dot computer braille", FALSE, TRUE, TRUE>>,
    <<"en-us-comp8-ext.utb", "English (U.S.) 8 dot computer braille", FALSE, TRUE, TRUE>>,
    <<"en-us-g1.ctb", "English (U.S.) grade 1", FALSE, TRUE, TRUE>>,
    <<"en-us-g2.ctb", "English (U.S.) grade 2", TRUE, TRUE, TRUE>>,
    <<"eo-g1.ctb", "Esperanto grade 1", FALSE, TRUE, TRUE>>,
    <<"Es-Es-G0.utb", "Spanish 8 dot computer braille", FALSE, TRUE, TRUE>>,
    <<"es-g1.ctb", "Spanish grade 1", FALSE, TRUE, TRUE>>,
    <<"es-g2.ctb", "Spanish grade 2", FALSE, TRUE, TRUE>>,
    <<"et-g0.utb", "Estonian grade 0", FALSE, TRUE, TRUE>>,
    <<"ethio-g1.ctb", "Ethiopic grade 1", FALSE, TRUE, TRUE>>,
    <<"fa-ir-comp8.ctb", "Persian 8 dot computer braille", FALSE, TRUE, TRUE>>,
    <<"fa-ir-g1.utb", "Persian grade 1", FALSE, TRUE, TRUE>>,
    <<"fi.utb", "Finnish 6 dot", FALSE, TRUE, TRUE>>,
    <<"fi-fi-8dot.ctb", "Finnish 8 dot computer braille", FALSE, TRUE, TRUE>>,
    <<"fr-bfu-comp6.utb", "French (unified) 6 dot computer braille", FALSE, TRUE, TRUE>>,
    <<"fr-bfu-comp8.utb", "French (unified) 8 dot computer braille", FALSE, TRUE, TRUE>>,
    <<"fr-bfu-g2.ctb", "French (unified) grade 2", TRUE, TRUE, TRUE>>,
    <<"ga-g1.utb", "Irish grade 1", FALSE, TRUE, TRUE>>,
    <<"ga-g2.ctb", "Irish grade 2", TRUE, TRUE, TRUE>>,
    <<"gu-in-g1.utb", "Gujarati grade 1", FALSE, TRUE, TRUE>>,
    <<"grc-international-en.utb", "Greek international braille", FALSE, TRUE, TRUE>>,
    <<"he.ctb", "Hebrew 8 dot computer braille", FALSE, TRUE, TRUE>>,
    <<"hi-in-g1.utb", "Hindi grade 1", FALSE, TRUE, TRUE>>,
    <<"hr-comp8.utb", "Croatian 8 dot computer braille", FALSE, TRUE, TRUE>>,
    <<"hr-g1.ctb", "Croatian grade 1", FALSE, TRUE, TRUE>>,
    <<"hu-hu-comp8.ctb", "Hungarian 8 dot computer braille", FALSE, TRUE, TRUE>>,
    <<"hu-hu-g1.ctb", "Hungarian grade 1", FALSE, TRUE, TRUE>>,
    <<"hu-hu-g2.ctb", "Hungarian grade 2", TRUE, TRUE, TRUE>>,
    <<"is.ctb", "Icelandic 8 dot computer braille", FALSE, TRUE, TRUE>>,
    <<"it-it-comp6.utb", "Italian 6 dot computer braille", FALSE, TRUE, TRUE>>,
    <<"it-it-comp8.utb", "Italian 8 dot computer braille", FALSE, TRUE, TRUE>>,
    <<"ka-in-g1.utb", "Kannada grade 1", FALSE, TRUE, TRUE>>,
    <<"ko-2006-g1.ctb", "Korean grade 1 (2006)", FALSE, TRUE, TRUE>>,
    <<"ko-2006-g2.ctb", "Korean grade 2 (2006)", TRUE, TRUE, TRUE>>,
    <<"ko-g1.ctb", "Korean grade 1", FALSE, TRUE, TRUE>>,
    <<"ko-g2.ctb", "Korean grade 2", TRUE, TRUE, TRUE>>,
    <<"ks-in-g1.utb", "Kashmiri grade 1", FALSE, TRUE, TRUE>>,
    <<"lt.ctb", "Lithuanian 8 dot", FALSE, TRUE, TRUE>>,
    <<"lt-6dot.utb", "Lithuanian 6 dot", FALSE, TRUE, TRUE>>,
    <<"Lv-Lv-g1.utb", "Latvian grade 1", FALSE, TRUE, TRUE>>,
    <<"ml-in-g1.utb", "Malayalam grade 1", FALSE, TRUE, TRUE>>,
    <<"mn-in-g1.utb", "Manipuri grade 1", FALSE, TRUE, TRUE>>,
    <<"mn-MN-g1.utb", "Mongolian grade 1", FALSE, TRUE, TRUE>>,
    <<"mn-MN-g2.ctb", "Mongolian grade 2", TRUE, TRUE, TRUE>>,
    <<"mr-in-g1.utb", "Marathi grade 1", FALSE, TRUE, TRUE>>,
    <<"nl-BE-g0.utb", "Dutch (Belgium) 6 dot", FALSE, TRUE, TRUE>>,
    <<"nl-NL-g0.utb", "Dutch (Netherlands) 6 dot", FALSE, TRUE, TRUE>>,
    <<"nl-comp8.utb", "Dutch 8 dot", FALSE, TRUE, TRUE>>,
    <<"no-no-8dot.utb", "Norwegian 8 dot computer braille", FALSE, TRUE, TRUE>>,
    <<"No-No-g0.utb", "Norwegian grade 0", FALSE, TRUE, TRUE>>,
    <<"No-No-g1.ctb", "Norwegian grade 1", FALSE, TRUE, TRUE>>,
    <<"No-No-g2.ctb", "Norwegian grade 2", TRUE, TRUE, TRUE>>,
    <<"No-No-g3.ctb", "Norwegian grade 3", TRUE, TRUE, TRUE>>,
    <<"np-in-g1.utb", "Nepali grade 1", FALSE, TRUE, TRUE>>,
    <<"or-in-g1.utb", "Oriya grade 1", FALSE, TRUE, TRUE>>,
    <<"pl-pl-comp8.ctb", "Polish 8 dot computer braille", FALSE, TRUE, TRUE>>,
    <<"Pl-Pl-g1.utb", "Polish grade 1", FALSE, TRUE, TRUE>>,
    <<"pt-pt-comp8.ctb", "Portuguese 8 dot computer braille", FALSE, TRUE, TRUE>>,
    <<"Pt-Pt-g1.utb", "Portuguese grade 1", FALSE, TRUE, TRUE>>,
    <<"Pt-Pt-g2.ctb", "Portuguese grade 2", TRUE, TRUE, TRUE>>,
    <<"pu-in-g1.utb", "Punjabi grade 1", FALSE, TRUE, TRUE>>,
    <<"ro.ctb", "Romanian", FALSE, TRUE, TRUE>>,
    <<"ru.ctb", "Russian computer braille", FALSE, TRUE, TRUE>>,
    <<"ru-ru-g1.utb", "Russian grade 1", FALSE, TRUE, TRUE>>,
    <<"sa-in-g1.utb", "Sanskrit grade 1", FALSE, TRUE, TRUE>>,
    <<"Se-Se.ctb", "Swedish 8 dot computer braille", FALSE, TRUE, TRUE>>,
    <<"Se-Se-g1.utb", "Swedish grade 1", FALSE, TRUE, TRUE>>,
    <<"sk-g1.ctb", "Slovak grade 1", FALSE, TRUE, TRUE>>,
    <<"sl-si-comp8.ctb", "Slovenian 8 dot computer braille", FALSE, TRUE, TRUE>>,
    <<"sl-si-g1.utb", "Slovenian grade 1", FALSE, TRUE, TRUE>>,
    <<"sr-g1.ctb", "Serbian grade 1", FALSE, TRUE, TRUE>>,
    <<"ta-ta-g1.ctb", "Tamil grade 1", FALSE, TRUE, TRUE>>,
    <<"te-in-g1.utb", "Telugu grade 1", FALSE, TRUE, TRUE>>,
    <<"tr.ctb", "Turkish grade 1", FALSE, TRUE, TRUE>>,
    <<"uk.utb", "Ukrainian", FALSE, TRUE, TRUE>>,
    <<"unicode-braille.utb", "Unicode braille", FALSE, FALSE, TRUE>>,
    <<"vi-g1.ctb", "Vietnamese grade 1", FALSE, TRUE, TRUE>>,
    <<"zhcn-g1.ctb", "Chinese (China, Mandarin) grade 1", FALSE, TRUE, TRUE>>,
    <<"zhcn-g2.ctb", "Chinese (China, Mandarin) grade 2", FALSE, TRUE, TRUE>>,
    <<"zh-hk.ctb", "Chinese (Hong Kong, Cantonese)", FALSE, TRUE, TRUE>>,
    <<"zh-tw.ctb", "Chinese (Taiwan, Mandarin)", FALSE, TRUE, TRUE>>
>>

\* The entry the i-th builtin addTable call of initialize() registers.
BuiltinTable(i) ==
    LET b == BuiltinTables[i]
    IN  addTable(EmptyDict, b[1], PyStr(Translate(b[2])),
                 PyBool(b[3]), PyBool(b[4]), PyBool(b[5])).tables[b[1]]

\* The registry the builtin addTable calls build from an empty one.
BuiltinRegistry ==
    [f \in { BuiltinTables[i][1] : i \in 1..Len(BuiltinTables) } |->
        BuiltinTable(CHOOSE i \in 1..Len(BuiltinTables) : BuiltinTables[i][1] = f)]

\* The builtin part of initialize().  No builtin call raises and no file
\* name comes twice, so the calls come to writing each builtin entry over
\* the registry.
AddBuiltinTables(tables) ==
    [f \in DOMAIN tables \cup DOMAIN BuiltinRegistry |->
        IF f \in DOMAIN BuiltinRegistry THEN BuiltinRegistry[f] ELSE tables[f]]

-----------------------------------------------------------------------------
(* Custom tables *)

\* The locale code of a language given by its parts: <<"de", "AT">> is "de_AT".
LocaleCode(language) ==
    IF Len(language) = 1 THEN language[1]
    ELSE language[1] \o "_" \o language[2]

\* value.get(key) on a displayName dict: the string, or None.
DictGet(value, key) ==
    IF key \in DOMAIN value.items THEN PyStr(value.items[key]) ELSE PyNone

\* _getCustomTableDisplayName changed to try "en" before "en_US".
_getCustomTableDisplayNameEnFirst(fileName, tableCfg, language) ==
    LET value == Get(tableCfg, "displayName", PyNone)
    IN  IF value.type = "str"
        THEN [raised |-> "", value |-> PyStr(Translate(value.v))]
        ELSE IF value.type # "dict"
        THEN [raised |-> "ValueError", value |-> PyNone]
        ELSE LET n1 == DictGet(value, LocaleCode(language))
                 n2 == IF ~Truthy(n1) THEN DictGet(value, language[1]) ELSE n1
                 n3 == IF ~Truthy(n2) THEN DictGet(value, "en") ELSE n2
                 n4 == IF ~Truthy(n3) THEN DictGet(value, "en_US") ELSE n3
                 n5 == IF ~Truthy(n4) THEN PyStr(fileName) ELSE n4
             IN  [raised |-> "", value |-> n5]

_getCustomTableDisplayName(fileName, tableCfg, language) ==
    LET value == Get(tableCfg, "displayName", PyNone)
    IN  IF value.type = "str"
        THEN [raised |-> "", value |-> PyStr(Translate(value.v))]
        ELSE IF value.type # "dict"
        THEN [raised |-> "ValueError", value |-> PyNone]
        ELSE LET n1 == DictGet(value, LocaleCode(language))
                 n2 == IF ~Truthy(n1) THEN DictGet(value, language[1]) ELSE n1
                 n3 == IF ~Truthy(n2) THEN DictGet(value, "en_US") ELSE n2
                 n4 == IF ~Truthy(n3) THEN DictGet(value, "en") ELSE n3
                 n5 == IF ~Truthy(n4) THEN PyStr(fileName) ELSE n4
             IN  [raised |-> "", value |-> n5]

\* The loop of loadCustomTablesConfig from the i-th item of data on.  An
\* exception leaves the loop with the tables registered so far.
RECURSIVE LoadFrom(_, _, _, _)
LoadFrom(tables, data, language, i) ==
    IF i > Len(data) THEN [raised |-> "", tables |-> tables]
    ELSE LET fileName == data[i][1]
             tableCfg == data[i][2]
             name == _getCustomTableDisplayName(fileName, tableCfg, language)
             added == addTable(tables, fileName, name.value,
                               Get(tableCfg, "contracted", PyBool(FALSE)),
                               Get(tableCfg, "output", PyBool(TRUE)),
                               Get(tableCfg, "input", PyBool(TRUE)))
         IN  IF name.raised # "" THEN [raised |-> name.raised, tables |-> tables]
             ELSE IF added.raised # "" THEN added
             ELSE LoadFrom(added.tables, data, language, i + 1)

\* data is the dict in its order: a sequence of <<fileName, tableCfg>>.
loadCustomTablesConfig(tables, data, language) ==
    LoadFrom(tables, data, language, 1)

\* CustomTablesManifest(file_).dict(): ConfigObj parses the file and raises
\* on a syntax error.  The configspec is attached but nothing validates the
\* manifest against it, so the values stay the strings of the file and no
\* default is filled in.
CustomTablesManifest(file) ==
    IF file.content.raised # ""
    THEN [raised |-> file.content.raised, data |-> << >>]
    ELSE [raised |-> "", data |-> file.content.data]

-----------------------------------------------------------------------------
(* The environment: flags, directories and files *)

\* os.path.join(dir_, fileName)
PathJoin(dir_, fileName) == dir_ \o "\\" \o fileName

\* A file name is kept as <<root, extension>>, as os.path.splitext gives it.
FileNameOf(file) == file.fileName[1] \o file.fileName[2]

\* fileName.endswith(".ini")
EndsWithIni(file) == file.fileName[2] = ".ini"

\* candidates changed to yield the add-ons' directories before the
\* scratchpad one.
candidatesAddonsFirst(env) ==
    env.runningAddons \o
        (IF ~env.secure /\ env.enableScratchpadDir THEN <<env.scratchpad>> ELSE << >>)

\* The candidate directories, in order: the scratchpad one when enabled and
\* not in secure mode, then one per running add-on.
candidates(env) ==
    (IF ~env.secure /\ env.enableScratchpadDir THEN <<env.scratchpad>> ELSE << >>)
        \o env.runningAddons

IsDir(d) == d.isdir

\* The directories of _getCustomTablesDirs(): the candidates that exist.
_getCustomTablesDirs(env) == SelectSeq(candidates(env), IsDir)

\* The paths of a sequence of directories.
Paths(dirs) == [i \in 1..Len(dirs) |-> dirs[i].path]

LogRecord(level, message, path) ==
    [level |-> level, message |-> message, path |-> path]

\* ApplyFiles changed to leave the loop at the first manifest that fails.
RECURSIVE ApplyFilesStopping(_, _, _, _, _)
ApplyFilesStopping(st, dir_, dirList, language, i) ==
    IF i > Len(dirList) THEN st
    ELSE LET file == dirList[i]
             path == PathJoin(dir_.path, FileNameOf(file))
             manifest == CustomTablesManifest(file)
             loaded == IF manifest.raised # ""
                       THEN [raised |-> manifest.raised, tables |-> st.tables]
                       ELSE loadCustomTablesConfig(st.tables, manifest.data, language)
         IN  IF file.isfile /\ EndsWithIni(file)
             THEN IF loaded.raised # ""
                  THEN [st EXCEPT !.tables = loaded.tables,
                                  !.log = Append(@, LogRecord("exception",
                                            "Error while applying custom braille tables config",
                                            path))]
                  ELSE ApplyFilesStopping([st EXCEPT !.tables = loaded.tables],
                                          dir_, dirList, language, i + 1)
             ELSE ApplyFilesStopping(st, dir_, dirList, language, i + 1)

\* The loop over the files of one directory, from the i-th on.
RECURSIVE ApplyFiles(_, _, _, _, _)
ApplyFiles(st, dir_, dirList, language, i) ==
    IF i > Len(dirList) THEN st
    ELSE LET file == dirList[i]
             path == PathJoin(dir_.path, FileNameOf(file))
             manifest == CustomTablesManifest(file)
             loaded == IF manifest.raised # ""
                       THEN [raised |-> manifest.raised, tables |-> st.tables]
                       ELSE loadCustomTablesConfig(st.tables, manifest.data, language)
         IN  IF file.isfile /\ EndsWithIni(file)
             THEN ApplyFiles(
                    [st EXCEPT !.tables = loaded.tables,
                               !.log = IF loaded.raised # ""
                                       THEN Append(@, LogRecord("exception",
                                                "Error while applying custom braille tables config",
                                                path))
                                       ELSE @],
                    dir_, dirList, language, i + 1)
             ELSE ApplyFiles(st, dir_, dirList, language, i + 1)

\* ApplyDirs changed to go through customDirs in order, not reversed.
RECURSIVE ApplyDirsInOrder(_, _, _, _)
ApplyDirsInOrder(st, customDirs, language, i) ==
    IF i < 1 THEN st
    ELSE LET dir_ == customDirs[Len(customDirs) - i + 1]
         IN  IF dir_.listdir.raised = "FileNotFoundError"
             THEN ApplyDirsInOrder(
                    [st EXCEPT !.log = Append(@, LogRecord("error",
                                            "Directory not found", dir_.path))],
                    customDirs, language, i - 1)
             ELSE IF dir_.listdir.raised # ""
             THEN [st EXCEPT !.raised = dir_.listdir.raised]
             ELSE ApplyDirsInOrder(ApplyFiles(st, dir_, dir_.listdir.files, language, 1),
                                   customDirs, language, i - 1)

\* The loop over reversed(customDirs): i runs from the last directory down.
RECURSIVE ApplyDirs(_, _, _, _)
ApplyDirs(st, customDirs, language, i) ==
    IF i < 1 THEN st
    ELSE LET dir_ == customDirs[i]
         IN  IF dir_.listdir.raised = "FileNotFoundError"
             THEN ApplyDirs(
                    [st EXCEPT !.log = Append(@, LogRecord("error",
                                            "Directory not found", dir_.path))],
                    customDirs, language, i - 1)
             ELSE IF dir_.listdir.raised # ""
             THEN [st EXCEPT !.raised = dir_.listdir.raised]
             ELSE ApplyDirs(ApplyFiles(st, dir_, dir_.listdir.files, language, 1),
                            customDirs, language, i - 1)

\* initialize(): the state it leaves, what it logged and how it ended.
initialize(tables, dirs, env) ==
    LET customDirs == _getCustomTablesDirs(env)
        st == ApplyDirs([tables |-> AddBuiltinTables(tables),
                         log |-> << >>, raised |-> ""],
                        customDirs, env.lang, Len(customDirs))
    IN  [tables |-> st.tables, tablesDirs |-> Paths(customDirs) \o dirs,
         log |-> st.log, raised |-> st.raised]

\* terminate() changed to keep the directory list.
terminateKeepingDirs == [tables |-> EmptyDict, tablesDirs |-> tablesDirs]

\* terminate() changed to keep the registry.
terminateKeepingTables == [tables |-> _tables, tablesDirs |-> <<TABLES_DIR>>]

\* terminate()
terminate == [tables |-> EmptyDict, tablesDirs |-> <<TABLES_DIR>>]

-----------------------------------------------------------------------------
(* The inputs of the model *)

\* Raw table configurations, as ConfigObj reads them from a manifest.
CfgA == [displayName |-> PyStr("Custom A")]
CfgB == [displayName |-> PyStr("Custom B"), contracted |-> PyStr("true"),
         output |-> PyStr("true"), input |-> PyStr("false")]
CfgNoName == [contracted |-> PyStr("true")]
CfgBothOff == [displayName |-> PyStr("Custom A"),
               output |-> PyStr("false"), input |-> PyStr("false")]
CfgBothEmpty == [displayName |-> PyStr("Custom B"),
                 output |-> PyStr(""), input |-> PyStr("")]
CfgMaybe == [displayName |-> PyStr("Custom B"), contracted |-> PyStr("maybe")]
CfgLocalized == [displayName |-> PyDict([k \in {"en", "de"} |->
                                    IF k = "en" THEN "Custom X" ELSE "Eigene Z"]),
                 input |-> PyStr("")]
\* A displayName that is neither a string nor a section: "a, b" is a list.
CfgList == [displayName |-> PyList("a, b")]
\* A table configuration with bools, as a caller of loadCustomTablesConfig
\* may build it.
CfgBoolsOff == [displayName |-> PyStr("Custom A"),
                output |-> PyBool(FALSE), input |-> PyBool(FALSE)]

\* The data of the manifests: sequences of <<fileName, tableCfg>>.
DataA == << <<"foo.ctb", CfgA>> >>
DataB == << <<"foo.ctb", CfgB>> >>
DataNoName == << <<"foo.ctb", CfgNoName>> >>
DataBothOff == << <<"foo.ctb", CfgBothOff>> >>
DataMaybe == << <<"foo.ctb", CfgMaybe>> >>
DataPartial == << <<"foo.ctb", CfgA>>, <<FALLBACK_TABLE_NAME, CfgList>> >>
DataBothEmpty == << <<"foo.ctb", CfgBothEmpty>> >>
DataFallback == << <<FALLBACK_TABLE_NAME, CfgLocalized>> >>
DataBoolsOff == << <<"foo.ctb", CfgBoolsOff>> >>

File(root, ext, isfile, raised, data) ==
    [fileName |-> <<root, ext>>, isfile |-> isfile,
     content |-> [raised |-> raised, data |-> data]]

\* The files a custom directory may hold: the manifests, a manifest with a
\* syntax error, a file that is no .ini file and a directory named like one.
FilePool ==
    { File("a", ".ini", TRUE, "", DataA),
      File("b", ".ini", TRUE, "", DataB),
      File("maybe", ".ini", TRUE, "", DataMaybe),
      File("partial", ".ini", TRUE, "", DataPartial),
      File("fallback", ".ini", TRUE, "", DataFallback),
      File("bad", ".ini", TRUE, "ParseError", << >>),
      File("b", ".txt", TRUE, "", DataB),
      File("dir", ".ini", FALSE, "", DataB) }

\* The listings of at most n files, no file twice.
Listings(n) ==
    UNION { { l \in [1..k -> FilePool] :
                \A i, j \in 1..k : i # j => l[i] # l[j] } : k \in 0..n }

Dir(path, isdir, raised, files) ==
    [path |-> path, isdir |-> isdir,
     listdir |-> [raised |-> raised, files |-> files]]

\* The states of the directory at a path: with a listing, absent, removed
\* between the isdir check and the listing, or not listable.
DirStates(path, n) ==
    { Dir(path, TRUE, "", l) : l \in Listings(n) }
    \cup { Dir(path, FALSE, "FileNotFoundError", << >>),
           Dir(path, TRUE, "FileNotFoundError", << >>),
           Dir(path, TRUE, "PermissionError", << >>) }

ScratchpadPath == PathJoin("scratchpad", "brailleTables")

\* The installed add-ons, in the order addonHandler enumerates them.
Addons == <<"one">>
AddonPath(i) == PathJoin(PathJoin("addons", Addons[i]), "brailleTables")

\* The add-on directories when the first k add-ons are running.
AddonDirs(k, n) ==
    { a \in [1..k -> UNION { DirStates(AddonPath(i), n) : i \in 1..k }] :
        \A i \in 1..k : a[i].path = AddonPath(i) }

NumFiles(env) ==
    LET addonFiles[i \in 0..Len(env.runningAddons)] ==
            IF i = 0 THEN 0
            ELSE addonFiles[i - 1] + Len(env.runningAddons[i].listdir.files)
    IN  Len(env.scratchpad.listdir.files) + addonFiles[Len(env.runningAddons)]

Languages == { <<"en">>, <<"en", "US">>, <<"de">>, <<"de", "AT">>,
               <<"fr">>, <<"pt", "BR">> }

\* The environments of a load: some of the add-ons running and at most
\* MaxFiles files in all the custom directories; a scratchpad directory
\* that is disabled holds at most one file.
Envs ==
    { env \in [secure : BOOLEAN, enableScratchpadDir : BOOLEAN,
               scratchpad : DirStates(ScratchpadPath, MaxFiles),
               runningAddons : UNION { AddonDirs(k, MaxFiles) : k \in 0..Len(Addons) },
               lang : {<<"de", "AT">>}] :
        /\ NumFiles(env) <= MaxFiles
        /\ (env.secure \/ ~env.enableScratchpadDir) =>
              Len(env.scratchpad.listdir.files) <= 1 }

\* The environments of the calls to the registry: no add-on, and the
\* scratchpad directory enabled and absent, empty or with one manifest.
ApiEnvs ==
    { env \in [secure : {FALSE}, enableScratchpadDir : {TRUE},
               scratchpad : { Dir(ScratchpadPath, FALSE, "FileNotFoundError", << >>),
                              Dir(ScratchpadPath, TRUE, "", << >>),
                              Dir(ScratchpadPath, TRUE, "", <<File("a", ".ini", TRUE, "", DataA)>>) },
               runningAddons : {<< >>},
               lang : {<<"de", "AT">>}] : TRUE }

CurrentEnv ==
    [secure |-> secure, enableScratchpadDir |-> enableScratchpadDir,
     scratchpad |-> scratchpad, runningAddons |-> runningAddons, lang |-> lang]

TableNames == {"foo.ctb", FALLBACK_TABLE_NAME}
\* The <<displayName, contracted>> of the direct calls to addTable.
TableArgs == { <<"Table A", FALSE>>, <<"Table B", TRUE>> }

-----------------------------------------------------------------------------
(* The state machine *)

NoCall == [op |-> "", args |-> << >>]
Returned(value) == [raised |-> "", value |-> value]
Raised(exception) == [raised |-> exception, value |-> PyNone]

\* The state after the module is imported, in the environment env.
InitIn(env) ==
    /\ _tables = EmptyDict
    /\ tablesDirs = <<TABLES_DIR>>
    /\ secure = env.secure
    /\ enableScratchpadDir = env.enableScratchpadDir
    /\ scratchpad = env.scratchpad
    /\ runningAddons = env.runningAddons
    /\ lang = env.lang
    /\ call = NoCall
    /\ ret = Returned(PyNone)
    /\ log = << >>
    /\ prevTables = EmptyDict
    /\ prevDirs = <<TABLES_DIR>>
    /\ history = << >>

\* What every call records.
Called(op, args) ==
    /\ Len(history) < MaxCalls
    /\ call' = [op |-> op, args |-> args]
    /\ history' = Append(history, op)
    /\ prevTables' = _tables
    /\ prevDirs' = tablesDirs
    /\ UNCHANGED envVars

AddTable(fileName, displayName, contracted, output, input) ==
    LET r == addTable(_tables, fileName, displayName, contracted, output, input)
    IN  /\ Called("addTable", <<fileName, displayName, contracted, output, input>>)
        /\ _tables' = r.tables
        /\ ret' = IF r.raised # "" THEN Raised(r.raised) ELSE Returned(PyNone)
        /\ log' = << >>
        /\ UNCHANGED tablesDirs

LoadCustomTablesConfig(data) ==
    LET r == loadCustomTablesConfig(_tables, data, lang)
    IN  /\ Called("loadCustomTablesConfig", <<data>>)
        /\ _tables' = r.tables
        /\ ret' = IF r.raised # "" THEN Raised(r.raised) ELSE Returned(PyNone)
        /\ log' = << >>
        /\ UNCHANGED tablesDirs

Initialize ==
    LET r == initialize(_tables, tablesDirs, CurrentEnv)
    IN  /\ Called("initialize", << >>)
        /\ _tables' = r.tables
        /\ tablesDirs' = r.tablesDirs
        /\ ret' = IF r.raised # "" THEN Raised(r.raised) ELSE Returned(PyNone)
        /\ log' = r.log

Terminate ==
    /\ Called("terminate", << >>)
    /\ _tables' = terminate.tables
    /\ tablesDirs' = terminate.tablesDirs
    /\ ret' = Returned(PyNone)
    /\ log' = << >>

\* A call of _getCustomTableDisplayName alone.
GetCustomTableDisplayName(fileName, tableCfg) ==
    /\ Called("_getCustomTableDisplayName", <<fileName, tableCfg>>)
    /\ ret' = _getCustomTableDisplayName(fileName, tableCfg, lang)
    /\ log' = << >>
    /\ UNCHANGED <<_tables, tablesDirs>>

\* The calls to the registry, in an environment with one custom directory.
Init == \E env \in ApiEnvs : InitIn(env)

AddTableCall ==
    \E fileName \in TableNames, args \in TableArgs,
       output \in BOOLEAN, input \in BOOLEAN :
        AddTable(fileName, PyStr(args[1]), PyBool(args[2]),
                 PyBool(output), PyBool(input))

LoadCustomTablesConfigCall ==
    \E data \in {DataB, DataNoName, DataBothOff, DataBothEmpty, DataFallback,
                  DataBoolsOff} :
        LoadCustomTablesConfig(data)

Next == AddTableCall \/ LoadCustomTablesConfigCall \/ Initialize \/ Terminate

Spec == Init /\ [][Next]_vars

\* The loads, over the environments of a load.
InitLoad == \E env \in Envs : InitIn(env)

NextLoad == Initialize \/ Terminate

SpecLoad == InitLoad /\ [][NextLoad]_vars

\* The display names of custom tables, over configurations and languages.
DisplayNameKeys == {"de_AT", "de", "en_US", "en"}
DisplayNameValues ==
    [k \in DisplayNameKeys |->
        CASE k = "de_AT" -> "W" [] k = "de" -> "Z" [] k = "en_US" -> "Y" [] k = "en" -> "X"]

\* The displayName dicts: each key absent, present, or present and empty.
DisplayNameDicts ==
    UNION { { [k \in keys |-> IF k \in empty THEN "" ELSE DisplayNameValues[k]] :
                empty \in SUBSET keys } : keys \in SUBSET DisplayNameKeys }

DisplayNameCfgs ==
    { CfgA, CfgB, CfgNoName, [displayName |-> PyList("a, b")] }
    \cup { [displayName |-> PyDict(m)] : m \in DisplayNameDicts }

InitDisplayName ==
    \E env \in { e \in ApiEnvs : ~e.scratchpad.isdir }, language \in Languages :
        InitIn([env EXCEPT !.lang = language])

NextDisplayName ==
    \E fileName \in TableNames, tableCfg \in DisplayNameCfgs :
        GetCustomTableDisplayName(fileName, tableCfg)

SpecDisplayName == InitDisplayName /\ [][NextDisplayName]_vars

-----------------------------------------------------------------------------
(* What the claims speak of *)

\* The custom directories a load in the current environment goes through.
CustomDirs == _getCustomTablesDirs(CurrentEnv)

\* The file is one the load reads as a manifest.
IsManifest(file) == file.isfile /\ EndsWithIni(file)

\* The manifests of a directory the load can list.
ManifestsOf(d) ==
    IF d.listdir.raised # "" THEN {}
    ELSE { d.listdir.files[i] : i \in { j \in 1..Len(d.listdir.files) :
                                            IsManifest(d.listdir.files[j]) } }

\* The file cannot be parsed.
Unparseable(file) == IsManifest(file) /\ file.content.raised # ""

\* The manifest has an entry for the table.
Mentions(file, t) ==
    \E i \in 1..Len(file.content.data) : file.content.data[i][1] = t

\* The manifest is parsed and every entry of it is registered.
AppliesCleanly(file) ==
    /\ file.content.raised = ""
    /\ loadCustomTablesConfig(EmptyDict, file.content.data, lang).raised = ""

\* The display name the manifest gives the table.
NameGiven(file, t) ==
    LET i == CHOOSE j \in 1..Len(file.content.data) : file.content.data[j][1] = t
    IN  _getCustomTableDisplayName(t, file.content.data[i][2], lang)

\* The scratchpad directory is among the custom directories of the load.
ScratchpadActive ==
    /\ Len(CustomDirs) > 0
    /\ CustomDirs[1].path = ScratchpadPath

\* The add-on directories among the custom directories of the load.
AddonDirsActive ==
    { CustomDirs[i] : i \in { j \in 1..Len(CustomDirs) :
                                CustomDirs[j].path # ScratchpadPath } }

\* One manifest of the scratchpad directory defines the table, it applies
\* cleanly and gives it the name d1, and a manifest of an add-on directory
\* defines the table with another name.
DefinedByBoth(t, d1) ==
    /\ ScratchpadActive
    /\ \E f \in ManifestsOf(scratchpad) :
          /\ Mentions(f, t) /\ AppliesCleanly(f)
          /\ NameGiven(f, t).value = d1
          /\ \A g \in ManifestsOf(scratchpad) : Mentions(g, t) => g = f
    /\ \E a \in AddonDirsActive : \E g \in ManifestsOf(a) :
          /\ Mentions(g, t)
          /\ NameGiven(g, t).raised = ""
          /\ NameGiven(g, t).value # d1

\* The display names a manifest may give.
GivenNames ==
    { PyStr("Custom B"), PyStr(Translate("Custom A")), PyStr("Custom X"),
      PyStr("Eigene Z") } \cup { PyStr(t) : t \in TableNames }

\* C1: when initialize() completes and a table is defined by a manifest of
\* the scratchpad directory and by a manifest of an add-on directory with
\* different display names, the registered display name is the scratchpad's.
C1_ScratchpadWins ==
    (call.op = "initialize" /\ ret.raised = "") =>
        \A t \in TableNames, d1 \in GivenNames :
            DefinedByBoth(t, d1) =>
                /\ getTable(_tables, t).raised = ""
                /\ getTable(_tables, t).value.displayName = d1

C1_Witness ==
    /\ call.op = "initialize" /\ ret.raised = ""
    /\ DefinedByBoth("foo.ctb", PyStr("Custom B"))
    /\ _tables["foo.ctb"].displayName = PyStr("Custom B")
    /\ \E a \in AddonDirsActive : \E g \in ManifestsOf(a) :
          AppliesCleanly(g) /\ NameGiven(g, "foo.ctb").value = PyStr("Eigene A")

\* The environment without the manifests that cannot be parsed.
Parseable(file) == ~Unparseable(file)
WithoutUnparseableIn(d) ==
    [d EXCEPT !.listdir.files = SelectSeq(@, Parseable)]
WithoutUnparseable(env) ==
    [env EXCEPT !.scratchpad = WithoutUnparseableIn(@),
                !.runningAddons = [i \in 1..Len(@) |-> WithoutUnparseableIn(@[i])]]

\* The unparseable manifests of the directories the load listed, by path.
UnparseablePaths ==
    UNION { { PathJoin(CustomDirs[i].path, FileNameOf(f)) :
                f \in { g \in ManifestsOf(CustomDirs[i]) : Unparseable(g) } } :
            i \in 1..Len(CustomDirs) }

\* C2: a manifest that cannot be parsed is logged and skipped: the load
\* leaves the registry, and ends, as the same load without the unparseable
\* manifests does, and when it completes it has logged each of them.
C2_UnparseableSkipped ==
    call.op = "initialize" =>
        LET without == initialize(prevTables, prevDirs, WithoutUnparseable(CurrentEnv))
        IN  /\ _tables = without.tables
            /\ ret.raised = without.raised
            /\ ret.raised = "" =>
                  \A p \in UnparseablePaths :
                      \E i \in 1..Len(log) :
                          log[i].level = "exception" /\ log[i].path = p

\* An unparseable manifest is listed before a manifest of the same directory
\* that is applied, and the load registered the table of that manifest.
C2_Witness ==
    /\ call.op = "initialize" /\ ret.raised = ""
    /\ ScratchpadActive
    /\ Len(scratchpad.listdir.files) = 2
    /\ Unparseable(scratchpad.listdir.files[1])
    /\ scratchpad.listdir.files[2].content.data = DataB
    /\ IsManifest(scratchpad.listdir.files[2])
    /\ "foo.ctb" \notin DOMAIN prevTables
    /\ "foo.ctb" \in DOMAIN _tables
    /\ _tables["foo.ctb"].displayName = PyStr("Custom B")
    /\ Len(log) = 1

\* C3 (as claimed): initialize() returns normally whatever error occurs
\* while it lists a custom directory or applies a manifest.
C3_NeverAborts ==
    call.op = "initialize" => ret.raised = ""

\* C10 (as claimed): every registered table has true or false for
\* contracted, output and input: no manifest value that is not a boolean
\* reaches the registry.
C10_BooleanFlags ==
    \A f \in DOMAIN _tables :
        /\ _tables[f].contracted.type = "bool"
        /\ _tables[f].output.type = "bool"
        /\ _tables[f].input.type = "bool"

\* The table configuration and file name of a call of
\* _getCustomTableDisplayName.
CalledForDisplayName == call.op = "_getCustomTableDisplayName"

\* C4 (as claimed): for a table configuration with no displayName,
\* _getCustomTableDisplayName returns the file name.
C4_AbsentIsFileName ==
    (CalledForDisplayName /\ "displayName" \notin DOMAIN call.args[2]) =>
        ret = Returned(PyStr(call.args[1]))

\* The keys tried for a language, in order.
Chain(language) == <<LocaleCode(language), language[1], "en_US", "en">>

Min(S) == CHOOSE x \in S : \A y \in S : x <= y

\* The value of the first key of the chain that is in wanted, or else the
\* file name.
FirstOf(wanted, m, chain, fileName) ==
    LET found == { i \in 1..Len(chain) : chain[i] \in wanted }
    IN  IF found = {} THEN PyStr(fileName) ELSE PyStr(m[chain[Min(found)]])

CalledWithDict ==
    /\ CalledForDisplayName
    /\ "displayName" \in DOMAIN call.args[2]
    /\ call.args[2].displayName.type = "dict"

\* C5 (as claimed): for a displayName dict the result is the value of the
\* first key present among the locale, its language, en_US and en, or the
\* file name when none is present.
C5_FirstKeyPresent ==
    CalledWithDict =>
        LET m == call.args[2].displayName.items
        IN  ret = Returned(FirstOf(DOMAIN m, m, Chain(lang), call.args[1]))

\* C5 (amended): for a displayName dict the result is the value of the
\* first key, among the locale, its language, en_US and en, that is present
\* with a non-empty value, or the file name when there is none; the call
\* never raises.
C5_FirstKeyNonEmpty ==
    CalledWithDict =>
        LET m == call.args[2].displayName.items
        IN  ret = Returned(FirstOf({ k \in DOMAIN m : m[k] # "" }, m,
                                   Chain(lang), call.args[1]))

\* With {en: X, en_US: Y, de: Z} the locale de_AT gives Z.
C5_Witness ==
    /\ CalledWithDict
    /\ lang = <<"de", "AT">>
    /\ call.args[2].displayName.items =
          [k \in {"en", "en_US", "de"} |-> DisplayNameValues[k]]
    /\ ret = Returned(PyStr("Z"))

\* C6 (as claimed): every registered table has output or input true, and
\* addTable with output and input both false raises and leaves the registry
\* as it was.
C6_OutputOrInput ==
    /\ \A f \in DOMAIN _tables :
          _tables[f].output = PyBool(TRUE) \/ _tables[f].input = PyBool(TRUE)
    /\ (/\ call.op = "addTable"
        /\ call.args[4] = PyBool(FALSE)
        /\ call.args[5] = PyBool(FALSE)) =>
            (ret.raised = "ValueError" /\ _tables = prevTables)

\* C7: a successful addTable for a registered file name leaves exactly the
\* new descriptor under that name, as many entries as before, and every
\* other entry as it was.
C7_Overwrite ==
    (call.op = "addTable" /\ ret.raised = "" /\ call.args[1] \in DOMAIN prevTables) =>
        /\ getTable(_tables, call.args[1]) =
              Returned([fileName |-> call.args[1], displayName |-> call.args[2],
                        contracted |-> call.args[3], output |-> call.args[4],
                        input |-> call.args[5]])
        /\ Cardinality(DOMAIN _tables) = Cardinality(DOMAIN prevTables)
        /\ \A g \in DOMAIN prevTables \ {call.args[1]} :
              g \in DOMAIN _tables /\ _tables[g] = prevTables[g]

\* An entry is replaced by one that differs from it in every field, among
\* other entries.
C7_Witness ==
    /\ call.op = "addTable" /\ ret.raised = ""
    /\ call.args[1] \in DOMAIN prevTables
    /\ prevTables[call.args[1]].displayName # call.args[2]
    /\ prevTables[call.args[1]].contracted # call.args[3]
    /\ prevTables[call.args[1]].output # call.args[4]
    /\ prevTables[call.args[1]].input # call.args[5]
    /\ Cardinality(DOMAIN prevTables) > 1
    /\ _tables[call.args[1]].displayName = call.args[2]

\* C8: after terminate() the registry is empty, the directory list is the
\* builtin directory alone, and getTable raises for every file name.
C8_TerminateResets ==
    call.op = "terminate" =>
        /\ DOMAIN _tables = {}
        /\ tablesDirs = <<TABLES_DIR>>
        /\ \A f \in TableNames \cup DOMAIN prevTables :
              getTable(_tables, f).raised = "KeyError"

\* terminate() after two initialize() calls with a custom directory.
C8_Witness ==
    /\ call.op = "terminate"
    /\ history = <<"initialize", "initialize", "terminate">>
    /\ Len(prevDirs) = 3
    /\ "foo.ctb" \in DOMAIN prevTables
    /\ getTable(_tables, "foo.ctb").raised = "KeyError"
    /\ tablesDirs = <<TABLES_DIR>>

\* initialize() was called right after terminate(), with no custom
\* directory present.
ReloadedWithoutCustomDirs ==
    /\ Len(history) >= 2
    /\ history[Len(history)] = "initialize"
    /\ history[Len(history) - 1] = "terminate"
    /\ CustomDirs = << >>

\* C9 (as claimed): terminate() followed by initialize() with no custom
\* directory present yields an empty registry.
C9_EmptyAfterReload ==
    ReloadedWithoutCustomDirs => _tables = EmptyDict

\* C9 (amended): terminate() followed by initialize() with no custom
\* directory present yields a registry that holds the builtin tables
\* initialize() adds, and nothing else.
C9_BuiltinAfterReload ==
    ReloadedWithoutCustomDirs =>
        /\ ret.raised = ""
        /\ Cardinality(DOMAIN _tables) = Len(BuiltinTables)
        /\ \A i \in 1..Len(BuiltinTables) :
              getTable(_tables, BuiltinTables[i][1]) =
                  Returned([fileName |-> BuiltinTables[i][1],
                            displayName |-> PyStr(Translate(BuiltinTables[i][2])),
                            contracted |-> PyBool(BuiltinTables[i][3]),
                            output |-> PyBool(BuiltinTables[i][4]),
                            input |-> PyBool(BuiltinTables[i][5])])

\* A custom table was registered, then terminate() and initialize() ran.
C9_Witness ==
    /\ ReloadedWithoutCustomDirs
    /\ history = <<"addTable", "terminate", "initialize">>
    /\ "foo.ctb" \notin DOMAIN _tables
    /\ getFallbackTable(_tables).raised = ""

-----------------------------------------------------------------------------
(* The directory list *)

\* Two installed add-ons, in the order addonHandler enumerates them.
InstalledAddons == <<"one", "two">>
InstalledAddonPath(i) ==
    PathJoin(PathJoin("addons", InstalledAddons[i]), "brailleTables")

\* The states of a custom directory that holds no file.
EmptyDirStates(path) == DirStates(path, 0)

\* The environments of the directory discovery: the scratchpad directory
\* and those of the first k installed add-ons, each in any state, no files.
DirEnvs ==
    { env \in [secure : BOOLEAN, enableScratchpadDir : BOOLEAN,
               scratchpad : EmptyDirStates(ScratchpadPath),
               runningAddons : UNION {
                   { a \in [1..k -> UNION { EmptyDirStates(InstalledAddonPath(i)) :
                                              i \in 1..k }] :
                       \A i \in 1..k : a[i].path = InstalledAddonPath(i) } :
                   k \in 0..Len(InstalledAddons) },
               lang : {<<"de", "AT">>}] : TRUE }

InitDirs == \E env \in DirEnvs : InitIn(env)

NextDirs == Initialize \/ Terminate

SpecDirs == InitDirs /\ [][NextDirs]_vars

\* The paths of the running add-ons' directories that exist, from the
\* i-th add-on on, in enumeration order.
RECURSIVE ExistingAddonPaths(_)
ExistingAddonPaths(i) ==
    IF i > Len(runningAddons) THEN << >>
    ELSE (IF runningAddons[i].isdir THEN <<runningAddons[i].path>> ELSE << >>)
             \o ExistingAddonPaths(i + 1)

\* The custom directories a load discovers: the scratchpad one first, when
\* enabled, not in secure mode and existing, then the add-ons' ones.
Discovered ==
    (IF ~secure /\ enableScratchpadDir /\ scratchpad.isdir
     THEN <<scratchpad.path>> ELSE << >>) \o ExistingAddonPaths(1)

\* The builtin directory is the last of the list and is in it once.
BuiltinLastAndOnce ==
    /\ Len(tablesDirs) >= 1
    /\ tablesDirs[Len(tablesDirs)] = TABLES_DIR
    /\ Cardinality({ i \in 1..Len(tablesDirs) : tablesDirs[i] = TABLES_DIR }) = 1

\* C11 (as claimed): after initialize() the directory list is the custom
\* directories that load discovered, in discovery order, followed by the
\* builtin directory; the builtin directory is in the list exactly once in
\* every state.
C11_DiscoveredThenBuiltin ==
    /\ call.op = "initialize" => tablesDirs = Discovered \o <<TABLES_DIR>>
    /\ BuiltinLastAndOnce

\* C11 (amended): after initialize() the directory list is the custom
\* directories that load discovered, in discovery order, followed by the
\* list as it was before the call, which is the builtin directory alone
\* when the call is the first one or the first since terminate(); the
\* builtin directory is the last element and in the list exactly once in
\* every state.
C11_DiscoveredThenPrevious ==
    /\ call.op = "initialize" =>
          /\ tablesDirs = Discovered \o prevDirs
          /\ (Len(history) = 1 \/ history[Len(history) - 1] = "terminate") =>
                tablesDirs = Discovered \o <<TABLES_DIR>>
    /\ BuiltinLastAndOnce

\* A first load with the scratchpad directory and both add-on directories,
\* and a second load after which each of them is in the list twice.
C11_Witness ==
    /\ history = <<"initialize", "initialize">>
    /\ Discovered = <<ScratchpadPath, InstalledAddonPath(1), InstalledAddonPath(2)>>
    /\ prevDirs = Discovered \o <<TABLES_DIR>>
    /\ tablesDirs = Discovered \o Discovered \o <<TABLES_DIR>>

-----------------------------------------------------------------------------
(* Manifests that fail, and the fallback table *)

\* Applying the file as a manifest fails: it cannot be parsed, or
\* registering one of its entries raises.
Fails(file) ==
    /\ IsManifest(file)
    /\ \/ file.content.raised # ""
       \/ loadCustomTablesConfig(EmptyDict, file.content.data, lang).raised # ""

\* The environment without the manifests that fail.
Succeeds(file) == ~Fails(file)
WithoutFailingIn(d) ==
    [d EXCEPT !.listdir.files = SelectSeq(@, Succeeds)]
WithoutFailing(env) ==
    [env EXCEPT !.scratchpad = WithoutFailingIn(@),
                !.runningAddons = [i \in 1..Len(@) |-> WithoutFailingIn(@[i])]]

\* C12 (as claimed): a manifest whose application fails during
\* initialize() is skipped as a whole: the load leaves the registry as the
\* same load without the failing manifests does.
C12_FailedFileSkipped ==
    call.op = "initialize" =>
        _tables = initialize(prevTables, prevDirs, WithoutFailing(CurrentEnv)).tables

\* C13 (as claimed): when initialize() has completed, getFallbackTable()
\* returns a descriptor of FALLBACK_TABLE_NAME whose output and input are
\* both true, whatever the custom manifests hold.
C13_FallbackUsable ==
    (call.op = "initialize" /\ ret.raised = "") =>
        /\ getFallbackTable(_tables).raised = ""
        /\ getFallbackTable(_tables).value.fileName = FALLBACK_TABLE_NAME
        /\ Truthy(getFallbackTable(_tables).value.output)
        /\ Truthy(getFallbackTable(_tables).value.input)

====
